---- MODULE Spec2Model ----
(***************************************************************************)
(* A model of app/client/components/WidgetFrame.ts: the WidgetFrame that   *)
(* embeds a Custom Widget in an iframe, the access checkers that gate the  *)
(* API it exposes over grain-rpc, and the event sources (notifiers) that   *)
(* push state changes to the widget.                                       *)
(***************************************************************************)
EXTENDS Integers, Sequences, FiniteSets, TLC

\* ------------------------------------------------------------------ bounds
MaxRequire == 3   \* require() calls made on one MethodAccess table
MaxFrames  == 2   \* buildDom() calls on one WidgetFrame
MaxReady   == 2   \* Ready messages accepted per iframe
MaxCalls   == 1   \* callRemote() calls made by the host
MaxEmit    == 2   \* 'event' emissions recorded per notifier

\* ------------------------------------------------------------ access levels
Levels == {"none", "read_table", "full"}

\* app/common/CustomWidget.isSatisfied: none < read_table < full.
ordered(level) ==
  CASE level = "none"       -> 0
    [] level = "read_table" -> 1
    [] level = "full"       -> 2

isSatisfied(current, minimum) == ordered(current) >= ordered(minimum)

\* --------------------------------------------------------------- checkers
\* Method names a widget may put in a call; "" stands for a missing name.
NoMethod    == ""
ImplMethods == {"getDocName", "listTables"}   \* methods the wrapped object has
Methods     == ImplMethods \cup {"invoke", "then", NoMethod}
Matchers    == {"getDocName", "invoke", "*"}  \* keys used in require()

\* new MethodAccess(): an empty _accessMap. A Map is a function on its keys.
EmptyMap == [m \in {} |-> "none"]

\* The mutant of require: the first rule written for a method is kept.
require_KeepFirst(map, level, method) ==
  IF method \in DOMAIN map THEN map
  ELSE [m \in DOMAIN map \cup {method} |-> IF m = method THEN level ELSE map[m]]

\* MethodAccess.require: this._accessMap.set(method, level).
require(map, level, method) ==
  [m \in DOMAIN map \cup {method} |-> IF m = method THEN level ELSE map[m]]

\* The mutant of MethodAccess.check: the wildcard rule is looked up first.
MethodAccess_check_WildcardFirst(map, level, method) ==
  IF "*" \in DOMAIN map THEN isSatisfied(level, map["*"])
  ELSE IF method \in DOMAIN map THEN isSatisfied(level, map[method])
  ELSE FALSE

\* MethodAccess.check, for a method name that is present.
MethodAccess_check(map, level, method) ==
  IF method \in DOMAIN map THEN isSatisfied(level, map[method])
  ELSE IF "*" \in DOMAIN map THEN isSatisfied(level, map["*"])
  ELSE FALSE

\* GristDocAPIImpl.defaultAccess.
defaultAccess == require(require(EmptyMap, "read_table", "getDocName"), "full", "*")
defaultLog    == << <<"read_table", "getDocName">>, <<"full", "*">> >>

\* MinimumLevel(min) and MethodAccess are the two AccessChecker classes. Every
\* MethodAccess checker here is the one table held in accessMap.
MinimumLevel(min) == [kind |-> "MinimumLevel", min |-> min]
MethodAccess      == [kind |-> "MethodAccess", min |-> "none"]
Checkers          == {MinimumLevel(l) : l \in Levels} \cup {MethodAccess}
NoChecker         == [kind |-> "none", min |-> "none"]

\* ------------------------------------------------------------------- state
VARIABLES
  access,       \* this._options.access
  iframe,       \* this._iframe: 0 before buildDom, else the id of the iframe built last
  disposed,     \* this.isDisposed()
  listening,    \* the 'message' listener is registered on G.window
  sender,       \* the callback given to _rpc.setSendMessage: "iframe" or "noop"
  implMap,      \* what is registered in _rpc, by name
  disposers,    \* the callbacks given to this.onDispose, in order
  calls,        \* the promises returned by callRemote, in order
  readyCount,   \* times 'ready' was triggered since the last buildDom
  last,         \* the last operation, its inputs and what it did
  denied,       \* the names a call of which was denied while access was none
  accessMap,    \* MethodAccess._accessMap of the shared table
  requireLog,   \* the require() calls made on it, in order
  checked,      \* the last MethodAccess.check call and its result
  sources,      \* the notifiers that were constructed
  used,         \* per notifier: the checker given to useEvents, NoChecker before
  srcDisposed,  \* per notifier: isDisposed()
  timer,        \* per notifier: the debounce timer is set
  burst,        \* per notifier: _debounced() calls since the timer was set
  cursor,       \* _baseView.cursor: the row id under the cursor, 0 for none
  rows,         \* _baseView.sortedRows: the number of rows
  options,      \* _section.activeCustomOptions: the object held and its value
  emitted,      \* 'event' emissions so far
  lastEmit      \* the last emission: its source, its data, what the view held then

bridgeVars == <<access, iframe, disposed, listening, sender, implMap, disposers,
                calls, readyCount>>
tableVars  == <<accessMap, requireLog, checked>>
hostVars   == <<cursor, rows, options>>
sourceVars == <<sources, used, srcDisposed, timer, burst, emitted, lastEmit>>
vars       == <<bridgeVars, last, denied, tableVars, hostVars, sourceVars>>

Notifiers == {"record", "table", "config"}
ApiNames  == {"GristDocAPI"}
FuncNames == {"method"}
Names     == ApiNames \cup FuncNames
Windows   == 0..MaxFrames      \* 0 is a window that is none of the frame's iframes

\* An entry of _rpc's implementation map. kind "api": the Proxy of wrapObject,
\* with the access level it was built with. kind "func": the gated function.
NoImpl == [kind |-> "none", checker |-> NoChecker, access |-> "none"]

\* AccessChecker.check(access, method) returns true.
Check(checker, level, method) ==
  IF checker.kind = "MinimumLevel" THEN isSatisfied(level, checker.min)
  ELSE IF checker.kind = "MethodAccess" THEN MethodAccess_check(accessMap, level, method)
  ELSE FALSE

\* MethodAccess.check throws when no method name is given.
CheckThrows(checker, method) == checker.kind = "MethodAccess" /\ method = NoMethod

\* ---------------------------------------------------------------- messages
MsgTypes == {"Ready", "RpcCall", "RpcRespData", "RpcRespErr"}
Dests    == {"grist", "", "other"}
\* implFails is not part of the message: it says whether the implementation or
\* handler the call reaches, if it reaches one, fails (throws or rejects).
NoMsg    == [mtype |-> "none", mdest |-> "", iface |-> "", meth |-> "", nargs |-> 0, reqId |-> 0,
             implFails |-> FALSE]
\* The calls a widget makes of what the frame exposes.
CallMessages ==
  [mtype : {"RpcCall"}, mdest : {"grist"}, iface : Names, meth : Methods, nargs : 0..1,
   reqId : {0}, implFails : {FALSE}]
  \cup [mtype : {"RpcCall"}, mdest : {"grist"}, iface : Names, meth : Methods, nargs : {0},
        reqId : {0}, implFails : {TRUE}]
\* Ready messages, responses to callRemote, and one call to each destination.
LifeMessages ==
  [mtype : {"Ready"}, mdest : {"grist", ""}, iface : {""}, meth : {""}, nargs : {0}, reqId : {0},
   implFails : {FALSE}]
  \cup [mtype : {"RpcRespData", "RpcRespErr"}, mdest : {""}, iface : {""}, meth : {""},
        nargs : {0}, reqId : 1..MaxCalls, implFails : {FALSE}]
  \cup [mtype : {"RpcCall"}, mdest : Dests, iface : FuncNames, meth : {"invoke"},
        nargs : {0}, reqId : {0}, implFails : {FALSE}]
Messages == CallMessages \cup LifeMessages

\* What a gated call did: the verdict of the checker, whether the wrapped
\* implementation ran, and how the call ended.
\* The Error a call ended with: its message and what the message holds.
NoError == [message |-> "none"]

\* The mutant of throwError: the message holds no level.
throwError_NoLevel(level) == [message |-> "Access not granted. Current access level "]

\* throwError(access): new Error('Access not granted. Current access level ' + access).
throwError(level) == [message |-> "Access not granted. Current access level ", level |-> level]

\* member is what reading the method name on the registered object gave.
NoCall == [kind |-> "none", checker |-> NoChecker, level |-> "none", verdict |-> "none",
           invoked |-> FALSE, outcome |-> "none", member |-> "none", targetRead |-> FALSE,
           error |-> NoError]
Outcome(kind, checker, level, verdict, invoked, outcome) ==
  [kind |-> kind, checker |-> checker, level |-> level, verdict |-> verdict,
   invoked |-> invoked, outcome |-> outcome, member |-> "none", targetRead |-> FALSE,
   error |-> IF outcome = "AccessNotGranted" THEN throwError(level)
             ELSE IF outcome \in {"TypeError", "CheckerError"} THEN [message |-> outcome]
             ELSE NoError]

\* The Proxy's get(target, methodName): a function, whatever the name is.
ProxyGet(methodName) == "function"

\* Reading a name on the {invoke: fn} object registerFunc registers.
FuncGet(methodName) == IF methodName = "invoke" THEN "function" ELSE "undefined"

\* target[methodName](...arguments), once the check has passed: the wrapped
\* object is read here and nowhere else.
CallTarget(kind, checker, level, methodName) ==
  IF methodName \in ImplMethods
  THEN [Outcome(kind, checker, level, "true", TRUE, "ok") EXCEPT !.targetRead = TRUE]
  ELSE [Outcome(kind, checker, level, "true", FALSE, "TypeError") EXCEPT !.targetRead = TRUE]

\* The mutant of wrapObject: the method is looked up on the target first.
wrapObject_LooksUpFirst(checker, level, methodName) ==
  IF methodName = "then"
  THEN Outcome("api", checker, level, "skipped", FALSE, "undefined")
  ELSE IF methodName \notin ImplMethods
  THEN [Outcome("api", checker, level, "skipped", FALSE, "TypeError") EXCEPT !.targetRead = TRUE]
  ELSE IF CheckThrows(checker, methodName)
  THEN Outcome("api", checker, level, "threw", FALSE, "CheckerError")
  ELSE IF Check(checker, level, methodName)
  THEN CallTarget("api", checker, level, methodName)
  ELSE Outcome("api", checker, level, "false", FALSE, "AccessNotGranted")

\* The mutant of wrapObject: the target is called whatever the checker says.
wrapObject_NoGate(checker, level, methodName) ==
  IF methodName = "then"
  THEN Outcome("api", checker, level, "skipped", FALSE, "undefined")
  ELSE CallTarget("api", checker, level, methodName)

\* wrapObject: a call of the Proxy's methodName, built with `level`.
wrapObject(checker, level, methodName) ==
  IF methodName = "then"
  THEN Outcome("api", checker, level, "skipped", FALSE, "undefined")
  ELSE IF CheckThrows(checker, methodName)
  THEN Outcome("api", checker, level, "threw", FALSE, "CheckerError")
  ELSE IF Check(checker, level, methodName)
  THEN CallTarget("api", checker, level, methodName)
  ELSE Outcome("api", checker, level, "false", FALSE, "AccessNotGranted")

\* The mutant of the gated function: after one denial it denies every call.
gatedHandler_Latched(checker, level, methodName) ==
  IF methodName # "invoke"
  THEN Outcome("func", checker, level, "skipped", FALSE, "TypeError")
  ELSE IF Check(checker, level, "invoke") /\ denied = {}
  THEN Outcome("func", checker, level, "true", TRUE, "ok")
  ELSE Outcome("func", checker, level, "false", FALSE, "AccessNotGranted")

\* The function exposeMethod registers, called when _options.access is `level`.
\* grain-rpc keeps it as an implementation whose one method is 'invoke'.
gatedHandler(checker, level, methodName) ==
  IF methodName # "invoke"
  THEN Outcome("func", checker, level, "skipped", FALSE, "TypeError")
  ELSE IF Check(checker, level, "invoke")
  THEN Outcome("func", checker, level, "true", TRUE, "ok")
  ELSE Outcome("func", checker, level, "false", FALSE, "AccessNotGranted")

\* The call, once the implementation or handler it invoked has failed or not.
Result(call, fails) ==
  IF call.invoked /\ fails
  THEN [call EXCEPT !.outcome = "ImplError", !.error = [message |-> "ImplError"]]
  ELSE call

\* _rpc dispatching a call to what is registered under msg.iface.
Dispatch(msg, dest) ==
  IF dest # "" THEN [NoCall EXCEPT !.outcome = "UnknownDest"]
  ELSE IF implMap[msg.iface].kind = "api"
  THEN Result([wrapObject(implMap[msg.iface].checker, implMap[msg.iface].access, msg.meth)
                 EXCEPT !.member = ProxyGet(msg.meth)], msg.implFails)
  ELSE IF implMap[msg.iface].kind = "func"
  THEN Result([gatedHandler(implMap[msg.iface].checker, access, msg.meth)
                 EXCEPT !.member = FuncGet(msg.meth)], msg.implFails)
  ELSE [NoCall EXCEPT !.outcome = "UnknownInterface"]

\* The sender set in the constructor: this._iframe?.contentWindow!.postMessage.
Sends == IF sender = "iframe" /\ iframe # 0 THEN 1 ELSE 0

Last(op, src, msg, accepted, effects, call, sent) ==
  [op |-> op, src |-> src, msg |-> msg, accepted |-> accepted, effects |-> effects,
   current |-> access, wasDisposed |-> disposed, call |-> call, sent |-> sent]

\* ----------------------------------------------------------------- notifiers
MaxBurst == 2   \* _debounced() calls counted while one timer is set
MaxRow   == 1   \* row ids the cursor can be on
MaxRows  == 4   \* rows the view can hold, from 3
MaxCatchUp == 1   \* Ready messages accepted by a frame that has a notifier
OptionValues == {"A", "B"}   \* the values activeCustomOptions takes, from A

NoEmit == [src |-> "none", rowId |-> 0, dataChange |-> FALSE, options |-> "null",
           rows |-> 0, burst |-> 0, posted |-> FALSE, readyAt |-> 0]

\* The classes that override BaseEventSource._ready with a call of _debounced.
HasReady(n) == n \in {"table", "config"}

\* The listener `source.attach(frame)` registers is still in place.
Attached(n) == n \in sources /\ used[n] # NoChecker /\ ~srcDisposed[n]

\* The subscriptions made in the notifier's constructor are still in place.
Subscribed(n) == n \in sources /\ ~srcDisposed[n]

\* The mutant of the debounce: a call made while the timer is set clears it.
Debounced_ClearsTimer(S) ==
  /\ timer' = [n \in Notifiers |-> IF n \in S THEN ~timer[n] ELSE timer[n]]
  /\ burst' = [n \in Notifiers |->
                 IF n \in S /\ burst[n] < MaxBurst THEN burst[n] + 1 ELSE burst[n]]

\* lodash debounce(fn, 0), called: the timer is set if it was not.
Debounced(S) ==
  /\ timer' = [n \in Notifiers |-> IF n \in S THEN TRUE ELSE timer[n]]
  /\ burst' = [n \in Notifiers |->
                 IF n \in S /\ burst[n] < MaxBurst THEN burst[n] + 1 ELSE burst[n]]

\* ------------------------------------------------------------------- Init
InitFrame ==
  /\ access \in Levels
  /\ iframe = 0
  /\ disposed = FALSE
  /\ listening = TRUE
  /\ sender = "iframe"
  /\ implMap = [n \in Names |-> NoImpl]
  /\ disposers = <<"transport">>
  /\ calls = <<>>
  /\ readyCount = 0
  /\ last = Last("init", 0, NoMsg, FALSE, <<>>, NoCall, 0)
  /\ denied = {}
  /\ checked = [level |-> "none", method |-> "", result |-> FALSE, at |-> 0]
  /\ sources \in {{}} \cup {{n} : n \in Notifiers}
  /\ used = [n \in Notifiers |-> NoChecker]
  /\ srcDisposed = [n \in Notifiers |-> FALSE]
  /\ timer = [n \in Notifiers |-> FALSE]
  /\ burst = [n \in Notifiers |-> 0]
  /\ cursor = 0
  /\ rows = 3
  /\ options = [inst |-> 0, val |-> "A"]
  /\ emitted = 0
  /\ lastEmit = NoEmit

\* The frame is constructed; the shared table is GristDocAPIImpl.defaultAccess.
Init == InitFrame /\ accessMap = defaultAccess /\ requireLog = defaultLog

\* ----------------------------------------------------------- bridge actions
\* The mutant of registerImpl's test: a name that is taken is registered again.
Registers_Always(name) == TRUE

\* _rpc.registerImpl(name, ...) accepts a name that is not in use; it throws
\* for one that is.
Registers(name) == implMap[name] = NoImpl

\* The failure of an operation of the frame's owner, kept in last.call.
Failure(what) == [NoCall EXCEPT !.outcome = what]

\* exposeAPI(name, api, access): the Proxy is built with the access level of
\* now. When registerImpl throws, line 110 is not reached.
ExposeAPI(name, checker) ==
  /\ ~disposed
  /\ IF Registers(name)
     THEN /\ implMap' = [implMap EXCEPT ![name] =
                           [kind |-> "api", checker |-> checker, access |-> access]]
          /\ disposers' = Append(disposers, name)
          /\ last' = Last("exposeAPI", 0, [NoMsg EXCEPT !.iface = name], FALSE, <<>>,
                          NoCall, 0)
     ELSE /\ last' = Last("exposeAPI", 0, [NoMsg EXCEPT !.iface = name], FALSE, <<>>,
                          Failure("AlreadyRegistered"), 0)
          /\ UNCHANGED <<implMap, disposers>>
  /\ UNCHANGED denied
  /\ UNCHANGED <<access, iframe, disposed, listening, sender, calls, readyCount,
                 tableVars, hostVars, sourceVars>>

\* exposeMethod(name, handler, access): nothing is given to onDispose.
ExposeMethod(name, checker) ==
  /\ ~disposed
  /\ IF Registers(name)
     THEN /\ implMap' = [implMap EXCEPT ![name] =
                           [kind |-> "func", checker |-> checker, access |-> "none"]]
          /\ last' = Last("exposeMethod", 0, [NoMsg EXCEPT !.iface = name], FALSE, <<>>,
                          NoCall, 0)
     ELSE /\ last' = Last("exposeMethod", 0, [NoMsg EXCEPT !.iface = name], FALSE, <<>>,
                          Failure("AlreadyRegistered"), 0)
          /\ UNCHANGED implMap
  /\ UNCHANGED denied
  /\ UNCHANGED <<access, iframe, disposed, listening, sender, disposers, calls,
                 readyCount, tableVars, hostVars, sourceVars>>

\* The owner of the options object assigns options.access.
SetAccess(level) ==
  /\ level # access
  /\ access' = level
  /\ last' = Last("setAccess", 0, NoMsg, FALSE, <<>>, NoCall, 0)
  /\ UNCHANGED denied
  /\ UNCHANGED <<iframe, disposed, listening, sender, implMap, disposers, calls,
                 readyCount, tableVars, hostVars, sourceVars>>

\* buildDom(): a new iframe element replaces this._iframe.
BuildDom ==
  /\ iframe < MaxFrames
  /\ iframe' = iframe + 1
  /\ readyCount' = 0
  /\ last' = Last("buildDom", 0, NoMsg, FALSE, <<>>, NoCall, 0)
  /\ UNCHANGED denied
  /\ UNCHANGED <<access, disposed, listening, sender, implMap, disposers, calls,
                 tableVars, hostVars, sourceVars>>

\* The names callRemote is given; editOptions() gives 'editOptions'.
RemoteNames == {"editOptions", "other"}

\* callRemote(name, ...args) and editOptions(): _rpc.callRemoteFunc sends the
\* call through the sender and returns a promise that a response settles.
CallRemote(name) ==
  /\ Len(calls) < MaxCalls
  /\ name \in RemoteNames
  /\ calls' = Append(calls, [afterDispose |-> disposed, sent |-> Sends = 1,
                             status |-> "pending"])
  /\ last' = Last("callRemote", 0, NoMsg, FALSE, <<>>, NoCall, Sends)
  /\ UNCHANGED denied
  /\ UNCHANGED <<access, iframe, disposed, listening, sender, implMap, disposers,
                 readyCount, tableVars, hostVars, sourceVars>>

\* The callbacks given to onDispose, in the order dispose() runs them: the
\* last one registered first.
RECURSIVE Reversed(_)
Reversed(seq) == IF seq = <<>> THEN <<>> ELSE Append(Reversed(Tail(seq)), Head(seq))

\* dispose(): the callbacks given to onDispose run, once. A dispose() of a
\* frame that is disposed runs nothing.
Dispose ==
  IF ~disposed
  THEN /\ disposed' = TRUE
       /\ listening' = FALSE
       /\ sender' = "noop"
       /\ implMap' = [n \in Names |->
                        IF \E i \in 1..Len(disposers) : disposers[i] = n
                        THEN NoImpl ELSE implMap[n]]
       /\ last' = Last("dispose", 0, NoMsg, FALSE, Reversed(disposers), NoCall, 0)
       /\ UNCHANGED denied
       /\ UNCHANGED <<access, iframe, disposers, calls, readyCount,
                      tableVars, hostVars, sourceVars>>
  ELSE /\ last' = Last("dispose", 0, NoMsg, FALSE, <<>>, NoCall, 0)
       /\ UNCHANGED denied
       /\ UNCHANGED <<bridgeVars, tableVars, hostVars, sourceVars>>

\* The mutant of the test in _onMessage: the source of the event is not compared.
Accepts_AnySource(src) == iframe # 0 /\ ~disposed

\* _onMessage's test: this._iframe && event.source === contentWindow && !isDisposed().
Accepts(src) == iframe # 0 /\ src = iframe /\ ~disposed

\* The mutant of the wipe: the destination is left as it came.
Cleared_Kept(msg) == msg.mdest

\* event.data.mdest after the 'grist' destination is wiped.
Cleared(msg) == IF msg.mdest = "grist" THEN "" ELSE msg.mdest

\* _rpc settling the pending call a response names.
Settle(msg) ==
  IF /\ msg.mtype \in {"RpcRespData", "RpcRespErr"}
     /\ msg.reqId \in 1..Len(calls) /\ calls[msg.reqId].status = "pending"
  THEN [calls EXCEPT ![msg.reqId].status =
          IF msg.mtype = "RpcRespData" THEN "resolved" ELSE "rejected"]
  ELSE calls

\* The mutant of the test of the message type: 'ready' is triggered once.
RaisesReady_Once(msg) == msg.mtype = "Ready" /\ readyCount = 0

\* event.data.mtype === MsgType.Ready: this.trigger('ready', this).
RaisesReady(msg) == msg.mtype = "Ready"

\* What _onMessage does with an accepted message, in order.
Effects(msg) ==
  (IF msg.mdest = "grist" THEN <<"clearTag">> ELSE <<>>)
  \o (IF RaisesReady(msg) THEN <<"ready">> ELSE <<>>)
  \o <<"receive">>

\* A 'message' event on G.window, from window src, carrying msg.
OnMessage(src, msg) ==
  IF listening /\ Accepts(src)
  THEN /\ msg.mtype = "Ready" => readyCount < MaxReady
       /\ readyCount' = IF RaisesReady(msg) THEN readyCount + 1 ELSE readyCount
       /\ IF RaisesReady(msg)
          THEN Debounced({n \in Notifiers : HasReady(n) /\ Attached(n)})
          ELSE UNCHANGED <<timer, burst>>
       /\ calls' = Settle(msg)
       /\ last' = Last("onMessage", src, msg, TRUE, Effects(msg),
                       IF msg.mtype = "RpcCall" THEN Dispatch(msg, Cleared(msg)) ELSE NoCall,
                       IF msg.mtype = "RpcCall" THEN Sends ELSE 0)
       /\ denied' = IF /\ msg.mtype = "RpcCall" /\ access = "none"
                       /\ Dispatch(msg, Cleared(msg)).outcome = "AccessNotGranted"
                    THEN denied \cup {msg.iface} ELSE denied
       /\ UNCHANGED <<access, iframe, disposed, listening, sender, implMap, disposers,
                      tableVars, hostVars, sources, used, srcDisposed, emitted, lastEmit>>
  ELSE /\ last' = Last("onMessage", src, msg, FALSE, <<>>, NoCall, 0)
       /\ UNCHANGED denied
       /\ UNCHANGED <<bridgeVars, tableVars, hostVars, sourceVars>>

\* ---------------------------------------------------------- notifier actions
Step(op) == Last(op, 0, NoMsg, FALSE, <<>>, NoCall, 0)

\* useEvents(source, access): the frame listens to the source's 'event', and
\* source.attach(frame) makes the source listen to the frame's 'ready'.
UseEvents(n, checker) ==
  /\ ~disposed
  /\ n \in sources /\ ~srcDisposed[n] /\ used[n] = NoChecker
  /\ used' = [used EXCEPT ![n] = checker]
  /\ last' = Step("useEvents")
  /\ UNCHANGED denied
  /\ UNCHANGED <<bridgeVars, tableVars, hostVars, sources, srcDisposed, timer, burst,
                 emitted, lastEmit>>

\* _baseView.cursor.rowIndex changes: RecordNotifier's subscription runs.
CursorChange(r) ==
  /\ "record" \in sources
  /\ r # cursor
  /\ cursor' = r
  /\ Debounced({n \in {"record"} : Subscribed(n)})
  /\ last' = Step("cursor")
  /\ UNCHANGED denied
  /\ UNCHANGED <<bridgeVars, tableVars, rows, options, sources, used,
                 srcDisposed, emitted, lastEmit>>

\* sortedRows.getKoArray() is assigned: TableNotifier's subscription runs.
RowsChange(k) ==
  /\ "table" \in sources
  /\ rows' = k
  /\ Debounced({n \in {"table"} : Subscribed(n)})
  /\ last' = Step("rows")
  /\ UNCHANGED denied
  /\ UNCHANGED <<bridgeVars, tableVars, cursor, options, sources, used,
                 srcDisposed, emitted, lastEmit>>

\* viewSection.viewFields() changes: TableNotifier's subscription runs. The
\* field list itself is not modelled.
FieldsChange ==
  /\ "table" \in sources
  /\ Debounced({n \in {"table"} : Subscribed(n)})
  /\ last' = Step("fields")
  /\ UNCHANGED denied
  /\ UNCHANGED <<bridgeVars, tableVars, hostVars, sources, used, srcDisposed,
                 emitted, lastEmit>>

\* sortedRows triggers 'rowNotify': TableNotifier's listener runs.
RowNotify ==
  /\ "table" \in sources
  /\ Debounced({n \in {"table"} : Subscribed(n)})
  /\ last' = Step("rowNotify")
  /\ UNCHANGED denied
  /\ UNCHANGED <<bridgeVars, tableVars, hostVars, sources, used, srcDisposed,
                 emitted, lastEmit>>

\* The mutant of the comparison: two objects are equal when they are the same.
isEqual_SameInstance(prev, cur) == prev = cur

\* lodash isEqual(prev, cur): the values are compared, not the instances.
isEqual(prev, cur) == prev.val = cur.val

\* _section.activeCustomOptions is assigned a new object of value v: the
\* listener of _currentConfig returns when isEqual(prev, cur).
OptionsChange(v) ==
  /\ "config" \in sources
  /\ options' = [inst |-> 1 - options.inst, val |-> v]
  /\ Debounced({n \in {"config"} : Subscribed(n) /\ ~isEqual(options, options')})
  /\ last' = Step("options")
  /\ UNCHANGED denied
  /\ UNCHANGED <<bridgeVars, tableVars, cursor, rows, sources, used,
                 srcDisposed, emitted, lastEmit>>

\* The mutant of the handler of useEvents: the checker is not asked.
Posts_Unfiltered(n) ==
  /\ used[n] # NoChecker /\ ~disposed
  /\ Sends = 1

\* The handler useEvents registers posts the data to the widget when
\* access.check(this._options.access) returns true.
Posts(n) ==
  /\ used[n] # NoChecker /\ ~disposed
  /\ ~CheckThrows(used[n], NoMethod)
  /\ Check(used[n], access, NoMethod)
  /\ Sends = 1

\* _update of notifier n, then _notify, then the frame's handler. readyAt is
\* the number of Ready messages the frame had accepted by then.
Emission(n) ==
  [src |-> n,
   rowId |-> IF n = "config" THEN 0 ELSE cursor,
   dataChange |-> n = "table",
   options |-> IF n = "config" THEN options.val ELSE "null",
   rows |-> IF n = "table" THEN rows ELSE 0,
   burst |-> burst[n],
   posted |-> Posts(n),
   readyAt |-> IF n = "config" THEN readyCount ELSE 0]

\* The mutant of the isDisposed() tests: a disposed notifier triggers 'event'.
Emits_Always(n) == TRUE

\* _update and _notify return at once when this.isDisposed().
Emits(n) == ~srcDisposed[n]

\* The debounce timer of notifier n expires, in a later turn: _update runs.
Fire(n) ==
  /\ timer[n]
  /\ Emits(n) => emitted < MaxEmit
  /\ timer' = [timer EXCEPT ![n] = FALSE]
  /\ burst' = [burst EXCEPT ![n] = 0]
  /\ IF Emits(n)
     THEN /\ emitted' = emitted + 1
          /\ lastEmit' = Emission(n)
     ELSE UNCHANGED <<emitted, lastEmit>>
  /\ last' = Step("fire")
  /\ UNCHANGED denied
  /\ UNCHANGED <<bridgeVars, tableVars, hostVars, sources, used, srcDisposed>>

\* The notifier is disposed: its subscriptions and listeners are removed.
DisposeSource(n) ==
  /\ n \in sources /\ ~srcDisposed[n]
  /\ srcDisposed' = [srcDisposed EXCEPT ![n] = TRUE]
  /\ last' = Step("disposeSource")
  /\ UNCHANGED denied
  /\ UNCHANGED <<bridgeVars, tableVars, hostVars, sources, used, timer, burst,
                 emitted, lastEmit>>

\* ------------------------------------------------------ MethodAccess actions
\* table.require(level, method).
Require(level, method) ==
  /\ Len(requireLog) < MaxRequire
  /\ accessMap' = require(accessMap, level, method)
  /\ requireLog' = Append(requireLog, <<level, method>>)
  /\ last' = Step("require")
  /\ UNCHANGED denied
  /\ UNCHANGED <<bridgeVars, checked, hostVars, sourceVars>>

\* table.check(level, method), for a method name that is given.
CheckCall(level, method) ==
  /\ checked' = [level |-> level, method |-> method,
                 result |-> MethodAccess_check(accessMap, level, method),
                 at |-> Len(requireLog)]
  /\ last' = Step("check")
  /\ UNCHANGED denied
  /\ UNCHANGED <<bridgeVars, accessMap, requireLog, hostVars, sourceVars>>

\* ----------------------------------------------------------- specifications
EventCheckers == {MinimumLevel("none"), MinimumLevel("read_table")}

\* The frame's API and the calls of it.
GateNext ==
  \/ \E name \in ApiNames, c \in Checkers : ExposeAPI(name, c)
  \/ \E name \in FuncNames, c \in Checkers : ExposeMethod(name, c)
  \/ \E l \in Levels : SetAccess(l)
  \/ BuildDom
  \/ Dispose
  \/ \E src \in {0, iframe}, msg \in CallMessages : OnMessage(src, msg)

\* The frame's life: built, ready, calling the widget, disposed.
LifeNext ==
  \/ \E name \in FuncNames : ExposeMethod(name, MinimumLevel("none"))
  \/ BuildDom
  \/ \E name \in RemoteNames : CallRemote(name)
  \/ Dispose
  \/ \E src \in Windows, msg \in LifeMessages : OnMessage(src, msg)

\* The notifiers of a frame.
NotifyNext ==
  \/ \E n \in Notifiers, c \in EventCheckers : UseEvents(n, c)
  \/ \E r \in 0..MaxRow : CursorChange(r)
  \/ \E k \in 3..MaxRows : RowsChange(k)
  \/ FieldsChange
  \/ RowNotify
  \/ \E v \in OptionValues : OptionsChange(v)
  \/ \E n \in Notifiers : Fire(n)
  \/ \E n \in Notifiers : DisposeSource(n)
  \/ \E l \in Levels : SetAccess(l)
  \/ iframe = 0 /\ BuildDom
  \/ Dispose
  \/ \E src \in 0..1, msg \in {m \in LifeMessages : m.mtype = "Ready" /\ m.mdest = ""} :
       readyCount < MaxCatchUp /\ OnMessage(src, msg)

\* Building and querying a MethodAccess table.
AccessNext ==
  \/ \E l \in Levels, m \in Matchers : Require(l, m)
  \/ \E l \in Levels, m \in Methods \ {NoMethod} : CheckCall(l, m)

\* An API exposed with the shared table, and the owner of the table.
TableNext ==
  \/ \E name \in ApiNames : ExposeAPI(name, MethodAccess)
  \/ \E l \in Levels, m \in Matchers : Require(l, m)
  \/ \E l \in Levels : SetAccess(l)
  \/ BuildDom
  \/ Dispose
  \/ \E src \in {0, iframe},
        msg \in {m \in CallMessages : m.iface \in ApiNames /\ m.nargs = 0 /\ ~m.implFails} :
       OnMessage(src, msg)

Next == GateNext \/ LifeNext \/ NotifyNext \/ AccessNext \/ TableNext

InitBridge == Init /\ sources = {}
InitNotify == Init /\ sources # {}
InitAccess ==
  InitFrame /\ sources = {} /\ access = "none" /\ accessMap = EmptyMap /\ requireLog = <<>>

Spec       == Init /\ [][Next]_vars
SpecGate   == InitBridge /\ [][GateNext]_vars
SpecLife   == InitBridge /\ [][LifeNext]_vars
SpecNotify == InitNotify /\ [][NotifyNext]_vars
SpecAccess == InitAccess /\ [][AccessNext]_vars
SpecTable  == InitBridge /\ [][TableNext]_vars

\* The event loop goes on: a step that can be taken is taken.
FairSpecLife == SpecLife /\ WF_vars(LifeNext)

\* ------------------------------------------------------------------ claims
\* The last operation was an inbound call that reached a registered endpoint.
GatedCall == last.op = "onMessage" /\ last.accepted /\ last.call.kind \in {"api", "func"}

\* The method name the endpoint's checker is asked about.
AskedMethod == IF last.call.kind = "func" THEN "invoke" ELSE last.msg.meth

\* The endpoint's code consulted the checker for the last call.
Consulted ==
  \/ last.call.kind = "api" /\ last.msg.meth # "then"
  \/ last.call.kind = "func" /\ last.msg.meth = "invoke"

\* C1: gate before call. Whenever the checker's answer for an inbound call, at
\* the level the gate hands it, is false, the registered method or handler was
\* not invoked, whatever the arguments; and where the gate consulted the checker
\* the call failed with the 'Access not granted' error.
C1_GateBeforeCall ==
  (GatedCall /\ ~CheckThrows(last.call.checker, AskedMethod)
             /\ ~Check(last.call.checker, last.call.level, AskedMethod))
    => /\ ~last.call.invoked
       /\ Consulted => last.call.outcome = "AccessNotGranted"

\* A call with no arguments of an exposeAPI object was denied.
C1_Witness ==
  /\ GatedCall /\ last.call.kind = "api" /\ last.msg.nargs = 0
  /\ last.call.verdict = "false" /\ last.call.outcome = "AccessNotGranted"

\* C2: every inbound call is gated against the access level that is current
\* when it arrives: a call the checker does not permit at that level does not
\* reach the implementation, through exposeAPI as through exposeMethod.
C2_GatedAtCurrentLevel ==
  (GatedCall /\ ~CheckThrows(last.call.checker, AskedMethod)
             /\ ~Check(last.call.checker, last.current, AskedMethod))
    => ~last.call.invoked

\* C3: after the access level was raised from none to full, a call of an
\* endpoint registered and denied at none, which the checker permits at full
\* and denies at none, succeeds when it is issued again.
C3_RaisedLevelPermits ==
  (/\ GatedCall /\ Consulted
   /\ last.msg.iface \in denied
   /\ last.current = "full"
   /\ last.call.kind = "api" => last.msg.meth \in ImplMethods
   /\ ~last.msg.implFails
   /\ ~CheckThrows(last.call.checker, AskedMethod)
   /\ ~Check(last.call.checker, "none", AskedMethod)
   /\ Check(last.call.checker, "full", AskedMethod))
    => last.call.invoked /\ last.call.outcome = "ok"

\* The entries of a require() log that name matcher m.
RulesFor(log, m) == {i \in 1..Len(log) : log[i][2] = m}

\* The rule a table built by the require() calls of log holds for matcher m:
\* the level of the last call that names m.
RuleOf(log, m) ==
  log[CHOOSE i \in RulesFor(log, m) : \A j \in RulesFor(log, m) : j <= i][1]

\* The minimum the table resolves for method m: the exact rule, else the
\* wildcard rule, else "deny".
Resolved(log, m) ==
  IF RulesFor(log, m) # {} THEN RuleOf(log, m)
  ELSE IF RulesFor(log, "*") # {} THEN RuleOf(log, "*")
  ELSE "deny"

\* none < read_table < full, as a set of pairs.
AtMost == {<<"none", "none">>, <<"none", "read_table">>, <<"none", "full">>,
           <<"read_table", "read_table">>, <<"read_table", "full">>, <<"full", "full">>}

\* C4: for every level L, every table built by a sequence of require calls and
\* every method name m, check(L, m) is true iff the rule resolved for m (exact
\* name, else wildcard, else deny) has a minimum <= L; the empty table denies
\* every method.
C4_CheckResolvesRule ==
  /\ \A L \in Levels, m \in (Methods \ {NoMethod}) \cup {"*"} :
       MethodAccess_check(accessMap, L, m)
         <=> (Resolved(requireLog, m) # "deny" /\ <<Resolved(requireLog, m), L>> \in AtMost)
  /\ checked.at = Len(requireLog) /\ checked.method # ""
       => (checked.result
             <=> (/\ Resolved(requireLog, checked.method) # "deny"
                  /\ <<Resolved(requireLog, checked.method), checked.level>> \in AtMost))
  /\ requireLog = <<>>
       => \A L \in Levels, m \in Methods \ {NoMethod} : ~MethodAccess_check(accessMap, L, m)

\* The wildcard rule was added before the exact rule, and the exact rule
\* decided a check that the wildcard rule would have granted.
C4_Witness ==
  /\ requireLog = << <<"none", "*">>, <<"full", "getDocName">> >>
  /\ checked = [level |-> "none", method |-> "getDocName", result |-> FALSE, at |-> 2]

\* C10: after dispose the frame holds no registration: the listener is removed,
\* the sender is a no-op and nothing is registered in the RPC object.
C10_NothingRegisteredAfterDispose ==
  disposed => /\ ~listening
              /\ sender = "noop"
              /\ \A n \in Names : implMap[n] = NoImpl

\* A notifier listens to the frame's 'ready' and the last operation was an
\* accepted Ready message.
ReadyHandled == last.op = "onMessage" /\ last.accepted /\ last.msg.mtype = "Ready"

\* C5: readiness catch-up. Once the frame has handled the widget's Ready
\* message, every notifier attached before it (record, table, config) has an
\* emission of its current state scheduled, whether or not its state changed.
C5_ReadyCatchUp ==
  ReadyHandled => \A n \in sources : Attached(n) => timer[n]

\* Notifier n's emission reflects what the view holds.
Reflects(n, e, c, r) ==
  /\ e.src = n
  /\ n = "record" => e.rowId = c /\ ~e.dataChange
  /\ n = "table" => e.rows = r /\ e.dataChange

\* C6, per step: the expiry of a live notifier's timer is exactly one emission,
\* which carries the state of that moment and stands for every trigger since
\* the timer was set; no other step emits for that notifier.
C6_Step ==
  \A n \in {"record", "table"} :
    /\ (timer[n] /\ ~timer'[n] /\ ~srcDisposed[n])
         => /\ emitted' = emitted + 1
            /\ Reflects(n, lastEmit', cursor', rows')
            /\ lastEmit'.burst = burst[n] /\ burst[n] >= 1
    /\ (emitted' # emitted /\ lastEmit'.src = n) => (timer[n] /\ ~timer'[n])
    /\ (timer[n] /\ timer'[n]) => burst'[n] >= burst[n]

\* C6, per state: with no timer set, the last emission of a live notifier
\* reflects the state after the last mutation.
C6_Fresh ==
  \A n \in {"record", "table"} :
    (n \in sources /\ ~srcDisposed[n] /\ ~timer[n] /\ lastEmit.src = n)
      => Reflects(n, lastEmit, cursor, rows)

\* C6: debounce coalescing. N >= 1 triggers of the record or table notifier
\* while one timer is set produce exactly one emission, at the timer's expiry,
\* reflecting the state after the last of the N mutations.
C6_DebounceCoalescing == [][C6_Step]_vars /\ []C6_Fresh

\* A view of 3 rows was changed to 4 rows twice, and one emission followed.
C6_Witness ==
  /\ lastEmit.src = "table" /\ lastEmit.burst = 2 /\ lastEmit.rows = 4
  /\ emitted = 1 /\ ~timer["table"]

C8_OnlyOwnLiveMessages ==
  [][/\ last'.op = "onMessage"
          => IF iframe # 0 /\ ~disposed /\ last'.src = iframe
             THEN last'.accepted /\ last'.effects # <<>>
             ELSE /\ ~last'.accepted /\ last'.effects = <<>>
                  /\ last'.call = NoCall /\ last'.sent = 0
                  /\ UNCHANGED <<bridgeVars, denied, tableVars, hostVars, sourceVars>>
     /\ (readyCount' # readyCount /\ readyCount' # 0) => (iframe # 0 /\ ~disposed)]_vars

\* A Ready message from the frame's own iframe arrived after dispose and was dropped.
C8_Witness ==
  /\ last.op = "onMessage" /\ last.msg.mtype = "Ready" /\ ~last.accepted
  /\ disposed /\ iframe # 0 /\ last.src = iframe

\* C9: a callRemote or editOptions made after dispose sends nothing to the
\* widget and its pending result is eventually rejected.
C9_DisposedCallRejected ==
  /\ [](\A i \in 1..Len(calls) : calls[i].afterDispose => ~calls[i].sent)
  /\ (\E i \in 1..Len(calls) : calls[i].afterDispose)
       ~> (\A i \in 1..Len(calls) : calls[i].afterDispose => calls[i].status = "rejected")

\* The number of times x occurs in seq.
Count(seq, x) == Cardinality({i \in 1..Len(seq) : seq[i] = x})

C11_Step ==
  /\ (last'.op = "dispose" /\ ~disposed)
       => /\ disposed' /\ ~listening' /\ sender' = "noop"
          /\ \A n \in ApiNames : implMap'[n] = NoImpl
          /\ last'.call = NoCall
          /\ \A x \in {"transport"} \cup ApiNames :
               Count(last'.effects, x) = Count(disposers, x)
  /\ (last'.op = "dispose" /\ disposed)
       => /\ last'.effects = <<>> /\ last'.call = NoCall
          /\ UNCHANGED <<bridgeVars, denied, tableVars, hostVars, sourceVars>>
  /\ (last'.op = "exposeAPI" /\ implMap[last'.msg.iface] # NoImpl)
       => /\ last'.call.outcome = "AlreadyRegistered"
          /\ UNCHANGED <<implMap, disposers>>

C12_NoEmissionAfterDispose ==
  [][/\ emitted' # emitted
          => /\ ~srcDisposed[lastEmit'.src]
             /\ lastEmit'.posted => (~disposed /\ sender = "iframe")
     /\ \A n \in Notifiers :
          /\ (srcDisposed[n] /\ timer[n] /\ ~timer'[n]) => UNCHANGED <<emitted, lastEmit>>
          /\ (srcDisposed[n] /\ ~timer[n]) => ~timer'[n]]_vars

\* The timer of a notifier disposed while it was pending expired, and nothing
\* was emitted.
C12_Witness ==
  /\ last.op = "fire" /\ emitted = 0
  /\ \E n \in sources : srcDisposed[n] /\ used[n] # NoChecker /\ ~timer[n]

\* C13, per step: an accepted message sent to 'grist' is handled as the same
\* message with an empty destination is: the same effects after the wipe, the
\* same local dispatch, the same 'ready' and the same settled call, and it is
\* not sent to a forwarder. A message to another destination is not wiped and
\* does not reach a local implementation.
C13_Step ==
  (last'.op = "onMessage" /\ last'.accepted) =>
    LET m == last'.msg
        u == [m EXCEPT !.mdest = ""]
    IN /\ m.mdest = "grist"
            => /\ last'.effects = <<"clearTag">> \o Effects(u)
               /\ last'.call = (IF m.mtype = "RpcCall" THEN Dispatch(u, "") ELSE NoCall)
               /\ last'.call.outcome # "UnknownDest"
               /\ readyCount' = IF RaisesReady(u) THEN readyCount + 1 ELSE readyCount
               /\ calls' = Settle(u)
       /\ m.mdest \notin {"grist", ""}
            => /\ last'.effects[1] # "clearTag"
               /\ m.mtype = "RpcCall"
                    => last'.call.outcome = "UnknownDest" /\ ~last'.call.invoked

\* C13: destination-tag interception.
C13_DestinationInterception == [][C13_Step]_vars

\* A call sent to 'grist' was wiped and ran the handler registered locally.
C13_Witness ==
  /\ last.op = "onMessage" /\ last.accepted /\ last.msg.mdest = "grist"
  /\ last.msg.mtype = "RpcCall" /\ last.effects = <<"clearTag", "receive">>
  /\ last.call.kind = "func" /\ last.call.invoked

\* C14: the config notifier schedules nothing when the options are replaced
\* by a new object of the same value, and its timer is set only by a
\* replacement of a different value or by an accepted Ready message.
C14_EqualOptionsScheduleNothing ==
  [][/\ (last'.op = "options" /\ options'.val = options.val)
          => /\ options'.inst # options.inst
             /\ UNCHANGED <<timer, burst, emitted, lastEmit>>
     /\ (~timer["config"] /\ timer'["config"])
          => \/ last'.op = "options" /\ options'.val # options.val
             \/ last'.op = "onMessage" /\ last'.accepted /\ last'.msg.mtype = "Ready"]_vars

\* The options of value A, already emitted, were replaced by a new object of
\* value A, and no timer is set.
C14_Witness ==
  /\ last.op = "options" /\ Subscribed("config") /\ used["config"] # NoChecker
  /\ options.val = "A" /\ lastEmit.options = "A" /\ ~timer["config"]

\* C15: probing a gated wrapper for 'then' does not invoke the implementation,
\* does not run the access check and does not throw, at every level, and the
\* probe finds no 'then' capability on the wrapper.
C15_ThenProbe ==
  (GatedCall /\ last.call.kind = "api" /\ last.msg.meth = "then")
    => /\ ~last.call.invoked
       /\ last.call.verdict = "skipped"
       /\ last.call.outcome = "undefined"
       /\ last.call.member = "undefined"

\* The last inbound call was denied: the checker answered false.
Denied == GatedCall /\ last.call.verdict = "false"

\* C16 as stated: every denial is an access-denied failure that carries the
\* attempted level and the name of the denied method, differs from the errors
\* of the implementation and is sent back to the widget.
C16_DenialCarriesLevelAndMethod ==
  Denied => /\ last.call.error.message = throwError(last.call.level).message
            /\ last.call.error.level = last.call.level
            /\ "method" \in DOMAIN last.call.error
            /\ last.sent = 1

\* C16, amended: every denial is the 'Access not granted' error holding the
\* level the checker was asked about and nothing else, the implementation was
\* not invoked, the failure goes back to the widget through the sender, and no
\* call that was not denied ends with that error.
C16_DenialCarriesLevel ==
  /\ Denied => /\ last.call.error = throwError(last.call.level)
               /\ DOMAIN last.call.error = {"message", "level"}
               /\ ~last.call.invoked
               /\ last.sent = 1
  /\ (GatedCall /\ ~Denied) => last.call.error.message # throwError(last.call.level).message

\* getDocName was denied at level none by the default table.
C16_Witness ==
  /\ Denied /\ last.call.checker = MethodAccess /\ last.msg.meth = "getDocName"
  /\ last.call.level = "none" /\ last.sent = 1

\* C17: event filtering. An emission is posted to the widget only when the
\* minimum of the checker given to useEvents is at most the level the frame
\* has when the event is emitted; when it is not, nothing is posted and the
\* source and the frame are left as they were.
C17_EventFiltering ==
  [][emitted' # emitted =>
       LET n == lastEmit'.src
       IN /\ lastEmit'.posted
               => (used[n] # NoChecker /\ <<used[n].min, access>> \in AtMost)
          /\ (used[n] # NoChecker /\ <<used[n].min, access>> \notin AtMost)
               => /\ ~lastEmit'.posted
                  /\ UNCHANGED <<bridgeVars, sources, used, srcDisposed>>]_vars

\* A source attached with a minimum of read_table emitted for the second time
\* while the level was none, on a built frame, and nothing was posted.
C17_Witness ==
  /\ last.op = "fire" /\ emitted = 2 /\ ~lastEmit.posted
  /\ used[lastEmit.src] = MinimumLevel("read_table") /\ access = "none"
  /\ iframe # 0 /\ ~disposed /\ ~srcDisposed[lastEmit.src]

\* C18: between two ready signals the config notifier delivers no two
\* consecutive notifications of equal options, also when the options left the
\* value emitted last and came back to it before the timer expired.
C18_NoEqualConsecutiveOptions ==
  [][(/\ emitted' # emitted
      /\ lastEmit.src = "config" /\ lastEmit'.src = "config"
      /\ lastEmit.posted /\ lastEmit'.posted
      /\ lastEmit'.readyAt = lastEmit.readyAt)
       => lastEmit'.options # lastEmit.options]_vars

\* The ways an inbound call ends without a result.
Failures == {"AccessNotGranted", "TypeError", "CheckerError", "ImplError",
             "UnknownInterface", "UnknownDest"}

\* C19, per step: a call that is denied, or that fails in the checker, the
\* dispatch or the implementation, leaves the access level, the registrations,
\* the iframe, the ready count, the disposal state, the listener, the sender
\* and every subscription of a notifier as they were.
C19_Step ==
  (last'.op = "onMessage" /\ last'.accepted /\ last'.call.outcome \in Failures)
    => UNCHANGED <<access, implMap, disposers, iframe, readyCount, disposed, listening,
                   sender, sources, used, srcDisposed, timer>>

\* C19, per state: a call the checker permits at the level the gate hands it
\* is executed, whatever calls were denied or failed before it.
C19_PermittedExecuted ==
  (/\ GatedCall /\ Consulted
   /\ last.call.kind = "api" => last.msg.meth \in ImplMethods
   /\ ~CheckThrows(last.call.checker, AskedMethod)
   /\ Check(last.call.checker, last.call.level, AskedMethod))
    => /\ last.call.invoked
       /\ last.call.outcome = IF last.msg.implFails THEN "ImplError" ELSE "ok"

\* C19: failure isolation.
C19_FailureIsolation == [][C19_Step]_vars /\ []C19_PermittedExecuted

\* A call of the exposed method was denied at level none; after the level was
\* raised, a call of it was executed.
C19_Witness ==
  /\ GatedCall /\ last.call.kind = "func" /\ last.msg.iface \in denied
  /\ last.call.invoked /\ last.call.outcome = "ok"

\* C20: while an interface stays registered with the MethodAccess table, the
\* decision of the table for a level and a method name does not change: no
\* later operation, a require on the shared table included, alters it.
C20_TableFixedAfterRegistration ==
  [][\A n \in ApiNames :
       (implMap[n].kind = "api" /\ implMap[n].checker = MethodAccess /\ implMap'[n] = implMap[n])
         => \A l \in Levels, m \in Methods \ {NoMethod} :
              MethodAccess_check(accessMap', l, m) = MethodAccess_check(accessMap, l, m)]_vars

\* What the widget observes of a call of method m on a wrapper built with
\* checker c at level l, whether the implementation would fail or not.
Observed(c, l, m, fails) ==
  LET call == Result([wrapObject(c, l, m) EXCEPT !.member = ProxyGet(m)], fails)
  IN [outcome |-> call.outcome, error |-> call.error, member |-> call.member]

\* C21: noninterference of a denial. When the checker denies a method name on
\* a wrapper, the widget observes the access-denied failure of the level and
\* nothing else, the wrapped object was not read, and the widget would observe
\* the same for every other name the checker denies, on the target or not, and
\* whether the implementation would fail or not.
C21_DenialRevealsNothing ==
  (Denied /\ last.call.kind = "api")
    => /\ ~last.call.targetRead /\ ~last.call.invoked
       /\ last.call.error = throwError(last.call.level)
       /\ \A m \in Methods \ {"then"}, fails \in BOOLEAN :
            (/\ ~CheckThrows(last.call.checker, m)
             /\ ~Check(last.call.checker, last.call.level, m))
              => Observed(last.call.checker, last.call.level, m, fails)
                   = [outcome |-> last.call.outcome, error |-> last.call.error,
                      member |-> last.call.member]

\* A name the wrapped object does not have was called with an argument and
\* denied.
C21_Witness ==
  /\ Denied /\ last.call.kind = "api" /\ last.msg.meth = "invoke"
  /\ last.msg.nargs = 1 /\ last.call.outcome = "AccessNotGranted"

====
